---- MODULE Spec2Model ----
(***************************************************************************)
(* UGC Studio AI: the generation client (services/geminiService, in its    *)
(* two source variants) driven by App.handleGenerate, and ImageUploader   *)
(* (in its two source variants) with resizeImage.                          *)
(*                                                                         *)
(* A JavaScript string is modelled as the set of the words it is made of;   *)
(* String.includes is "some word holds the substring", the empty string is *)
(* the empty set.  An optional value (null/undefined or a value) is a      *)
(* sequence of length 0 or 1.                                              *)
(***************************************************************************)
EXTENDS Integers, Sequences, FiniteSets, TLC

VARIABLES
    variant,         \* which source variant of generateUGCImage is built
    apiKey,          \* process.env.API_KEY (<<>> = not set)
    personImage,     \* App state: personImage.croppedBase64 (<<>> = null)
    productImage,    \* App state: productImage.croppedBase64 (<<>> = null)
    selectedSubScene,\* App state: selected scene (<<>> = null)
    isLoading,       \* App state
    error,           \* App state: error message (<<>> = null)
    generatedImage,  \* App state: data URL (<<>> = null)
    pc,              \* position of the generateUGCImage call
    retryCount,      \* parameter retryCount of the running invocation
    resp,            \* response the awaited request resolved with
    caught,          \* error caught by the catch block
    result,          \* settled promise of the top-level call
    requests,        \* generateContent requests issued by this call
    delays,          \* delay(1500) suspensions of this call
    retriedOn,       \* retry signals found in the message that caused the retry
    sentWith,        \* the requests of this call, in the order they were sent
    inFlight,        \* requests sent to the service and not yet settled
    delayRunning,    \* the timer of delay(1500) is set and has not fired
    activeCalls,     \* calls of generateUGCImage that handleGenerate is awaiting
    uploader,        \* which source variant of ImageUploader is built
    imageState,      \* the ImageState an uploader is given and sets
    isProcessing,    \* uploader state (unnamed/part_001 only)
    order,           \* the files handed to processFile, in order
    pending,         \* the processFile calls whose file is still being read
    image,           \* resizeImage: <<img.width, img.height>>
    maxDimension,    \* resizeImage: parameter maxDimension
    canvas           \* resizeImage: <<canvas.width, canvas.height>> (<<>> = not set)

vars == <<variant, apiKey, personImage, productImage, selectedSubScene,
          isLoading, error, generatedImage, pc, retryCount, resp, caught,
          result, requests, delays, retriedOn, sentWith, inFlight,
          delayRunning, activeCalls, uploader, imageState, isProcessing,
          order, pending, image, maxDimension, canvas>>

uploaderVars == <<uploader, imageState, isProcessing, order, pending>>
resizeVars == <<image, maxDimension, canvas>>

appInputs == <<personImage, productImage, selectedSubScene>>
appView == <<isLoading, error, generatedImage>>
callVars == <<pc, retryCount, resp, caught, result, requests, delays, retriedOn,
              sentWith, inFlight, delayRunning, activeCalls>>

----------------------------------------------------------------------------
(* Bounds *)
MaxMsgWords == 2    \* words in an upstream error message
MaxParts == 2       \* content parts in a response

----------------------------------------------------------------------------
(* Strings *)

\* words an upstream error message is made of
Words == {"RESOURCE_EXHAUSTED", "429", "quota", "API_KEY_INVALID", "401", "403",
          "SAFETY", "blocked", "500", "API_KEY is not available",
          "Requested entity was not found", "timeout"}

\* substring relation between a word and a searched substring
WordIncludes(w, sub) ==
    \/ w = sub
    \/ w = "SAFETY_BLOCK" /\ sub = "SAFETY"

\* String.prototype.includes
Includes(s, sub) == \E w \in s : WordIncludes(w, sub)

SeqsUpTo(S, n) == UNION {[1..k -> S] : k \in 0..n}

Messages == {m \in SUBSET Words : Cardinality(m) <= MaxMsgWords}

\* a one-sentence string
Sentence(w) == {w}

----------------------------------------------------------------------------
(* Values thrown to the catch block *)

NoStatus == "none"
\* HTTP status codes an error object may carry as an enumerable own property
Statuses == {"400", "403", "429", "500"}

\* a thrown value: a string primitive, or an error object with a message
\* (not enumerable) and possibly an enumerable status property
ThrownString(s) == [type |-> "string", text |-> s, status |-> NoStatus]
ErrorObject(msg, st) == [type |-> "object", text |-> msg, status |-> st]
NewError(w) == ErrorObject(Sentence(w), NoStatus)

UpstreamErrors ==
    {ThrownString(m) : m \in Messages \ {{}}}
    \cup {ErrorObject(m, st) : m \in Messages, st \in Statuses \cup {NoStatus}}

\* error.message (undefined, modelled as the absent option, on a string)
MessageOf(e) == IF e.type = "string" THEN <<>> ELSE <<e.text>>

\* JSON.stringify(error): only enumerable own properties are serialised, so
\* the message of an Error object is not part of the output
JSONstringify(e) ==
    IF e.status = NoStatus THEN {"{}"}
    ELSE {"{", "status", e.status, "}"}

----------------------------------------------------------------------------
(* Responses *)

Undefined == "<undefined>"
ImageData == {"imgA", "imgB"}
TextData == {"some text"}

Parts ==
    [kind : {"inlineData"}, data : ImageData \cup {"", Undefined}]
    \cup [kind : {"text"}, data : TextData \cup {""}]
    \cup [kind : {"other"}, data : {Undefined}]

\* candidates?.[0]?.content?.parts is absent, or is the list parts
AbsentParts == [hasParts |-> FALSE, parts |-> <<>>]
Responses == {AbsentParts} \cup [hasParts : {TRUE}, parts : SeqsUpTo(Parts, MaxParts)]

\* response.text: the concatenated text parts; truthy when not empty
RECURSIVE ResponseText(_)
ResponseText(parts) ==
    IF parts = <<>> THEN ""
    ELSE IF Head(parts).kind = "text" /\ Head(parts).data # ""
         THEN Head(parts).data
         ELSE ResponseText(Tail(parts))

----------------------------------------------------------------------------
(* generateUGCImage, variant services/geminiService.ts *)

QuotaMsg == Sentence("API Quota Exceeded. Please check your plan or wait a few minutes before trying again.")
AuthMsg == Sentence("There is a problem with the API key. Please ensure it is valid and has the correct permissions.")
SafetyMsg == Sentence("The request was blocked by safety filters. Please try a different scene or image.")
ConfigMsg == Sentence("API key is missing from the environment configuration.")
GenericMsg == Sentence("Something went wrong with the AI generation. Please try again later.")

\* handleApiError falling back to the error's own message
handleApiErrorPassThrough(e) ==
    LET errorString == IF e.type = "string" THEN e.text ELSE JSONstringify(e)
    IN  IF Includes(errorString, "RESOURCE_EXHAUSTED") \/ Includes(errorString, "429")
           \/ Includes(errorString, "quota")
        THEN QuotaMsg
        ELSE IF Includes(errorString, "API_KEY_INVALID") \/ Includes(errorString, "401")
                \/ Includes(errorString, "403")
        THEN AuthMsg
        ELSE IF Includes(errorString, "SAFETY") \/ Includes(errorString, "blocked")
        THEN SafetyMsg
        ELSE IF Includes(errorString, "API_KEY is not available")
        THEN ConfigMsg
        ELSE IF e.text # {} THEN e.text
        ELSE GenericMsg

handleApiError(e) ==
    LET errorString == IF e.type = "string" THEN e.text ELSE JSONstringify(e)
    IN  IF Includes(errorString, "RESOURCE_EXHAUSTED") \/ Includes(errorString, "429")
           \/ Includes(errorString, "quota")
        THEN QuotaMsg
        ELSE IF Includes(errorString, "API_KEY_INVALID") \/ Includes(errorString, "401")
                \/ Includes(errorString, "403")
        THEN AuthMsg
        ELSE IF Includes(errorString, "SAFETY") \/ Includes(errorString, "blocked")
        THEN SafetyMsg
        ELSE IF Includes(errorString, "API_KEY is not available")
        THEN ConfigMsg
        ELSE GenericMsg

\* outcome of a step of the try block: a returned value or a thrown error
Return(d) == [ok |-> TRUE, data |-> d, err |-> <<>>]
Throw(e) == [ok |-> FALSE, data |-> Undefined, err |-> <<e>>]

\* a loop that keeps the last part with inlineData
RECURSIVE LastInlineData(_)
LastInlineData(parts) ==
    IF parts = <<>> THEN <<>>
    ELSE IF LastInlineData(Tail(parts)) # <<>> THEN LastInlineData(Tail(parts))
    ELSE IF Head(parts).kind = "inlineData" THEN <<Head(parts).data>>
    ELSE <<>>

\* the for loop over the parts: the data of the first part with inlineData
RECURSIVE FirstInlineData(_)
FirstInlineData(parts) ==
    IF parts = <<>> THEN <<>>
    ELSE IF Head(parts).kind = "inlineData" THEN <<Head(parts).data>>
    ELSE FirstInlineData(Tail(parts))

\* the statements of the try block after the awaited request resolved
ExtractImage(r) ==
    IF ~r.hasParts THEN Throw(NewError("No output content generated."))
    ELSE IF FirstInlineData(r.parts) # <<>> THEN Return(FirstInlineData(r.parts)[1])
    ELSE IF ResponseText(r.parts) # "" THEN Throw(NewError("SAFETY_BLOCK"))
    ELSE Throw(NewError("No image found in response."))

\* a retry condition that allows a second retry
ShouldRetryTwice(rc, e) ==
    /\ rc < 2
    /\ MessageOf(e) # <<>>
    /\ (Includes(MessageOf(e)[1], "500") \/ Includes(MessageOf(e)[1], "429"))

\* a retry condition that does not look at the message
ShouldRetryAnyError(rc, e) == rc < 1

\* a retry condition without the rate-limit signal
ShouldRetryOnly500(rc, e) ==
    /\ rc < 1
    /\ MessageOf(e) # <<>>
    /\ Includes(MessageOf(e)[1], "500")

\* the condition of the retry in the catch block
ShouldRetry(rc, e) ==
    /\ rc < 1
    /\ MessageOf(e) # <<>>
    /\ (Includes(MessageOf(e)[1], "500") \/ Includes(MessageOf(e)[1], "429"))

----------------------------------------------------------------------------
(* generateUGCImage, variant without retry (unnamed/part_000) *)

ExtractImageBasic(r) ==
    IF ~r.hasParts THEN Throw(NewError("Invalid response format from Gemini API."))
    ELSE IF FirstInlineData(r.parts) # <<>> THEN Return(FirstInlineData(r.parts)[1])
    ELSE Throw(NewError("No image data found in the response parts."))

\* the message of the error the catch block throws
CatchBasic(e) ==
    IF MessageOf(e) # <<>> /\ Includes(MessageOf(e)[1], "Requested entity was not found")
    THEN Sentence("API configuration error. Please check your API key and project settings.")
    ELSE IF MessageOf(e) # <<>> /\ MessageOf(e)[1] # {}
    THEN MessageOf(e)[1]
    ELSE Sentence("Failed to generate image via Gemini API.")

----------------------------------------------------------------------------
(* The settled promise of a call *)

Resolved(d) == [ok |-> TRUE, data |-> d, message |-> {}]
Rejected(m) == [ok |-> FALSE, data |-> Undefined, message |-> m]

Variants == {"retry", "basic"}

Extract(v, r) == IF v = "retry" THEN ExtractImage(r) ELSE ExtractImageBasic(r)
Retries(v, rc, e) == v = "retry" /\ ShouldRetry(rc, e)
CatchThrows(v, e) == IF v = "retry" THEN handleApiError(e) ELSE CatchBasic(e)

\* the error thrown before the try block when process.env.API_KEY is not set
MissingKeyMsg(v) ==
    IF v = "retry" THEN Sentence("API key is not configured in the environment.")
    ELSE Sentence("API_KEY is not available in the environment.")

----------------------------------------------------------------------------
(* App *)

\* result.split(',')[1] of the data URL of a file; "" for a file of no bytes
PersonData == {"personB64", ""}
ProductData == {"productB64", ""}
Scenes == {"Cafe / Coffee shop"}

\* `data:image/png;base64,${resultBase64}`
DataUrl(d) == <<"data:image/png;base64,", IF d = Undefined THEN "undefined" ELSE d>>

\* err.message || "An unexpected error occurred. ..."
ErrorShown(m) ==
    IF m # {} THEN m
    ELSE Sentence("An unexpected error occurred. Please check your connection and try again.")

\* credentials process.env.API_KEY may hold
Keys == {"keyA", "keyB"}
InitialKey == "keyA"

\* !x for an optional string: null, undefined and "" are falsy
Falsy(x) == IF x = <<>> THEN TRUE ELSE x[1] = ""

\* a first input check that forgets the product image
InputsMissingPerson(person, product) == Falsy(person)

\* !personImage.croppedBase64 || !productImage.croppedBase64
InputsMissing(person, product) == Falsy(person) \/ Falsy(product)

\* !selectedSubScene
SceneMissing(scene) == Falsy(scene)

\* a Generate button that stays enabled while a generation is running
isButtonDisabledNotLoading ==
    Falsy(personImage) \/ Falsy(productImage) \/ Falsy(selectedSubScene)

isButtonDisabled ==
    Falsy(personImage) \/ Falsy(productImage) \/ Falsy(selectedSubScene) \/ isLoading

\* setIsLoading(false) on the success path only
LoadingUnlessResolved(r) == ~r.ok

\* the value isLoading has after the finally block
FinallyLoading(r) == FALSE

\* ImageState with no image: { file: null, preview: null, croppedBase64: null }
NullImage == [file |-> <<>>, preview |-> <<>>, croppedBase64 |-> <<>>]

\* an uploader that has been given no file
UploaderIdle ==
    /\ uploader = "plain"
    /\ imageState = NullImage
    /\ isProcessing = FALSE
    /\ order = <<>>
    /\ pending = {}

\* no image is being resized
ResizeIdle ==
    /\ image = <<1, 1>>
    /\ maxDimension = 1
    /\ canvas = <<>>

AppInit ==
    /\ variant \in Variants
    /\ apiKey \in {<<>>, <<InitialKey>>}
    /\ personImage = <<>>
    /\ productImage = <<>>
    /\ selectedSubScene = <<>>
    /\ isLoading = FALSE
    /\ error = <<>>
    /\ generatedImage = <<>>
    /\ pc = "idle"
    /\ retryCount = 0
    /\ resp = <<>>
    /\ caught = <<>>
    /\ result = <<>>
    /\ requests = 0
    /\ delays = 0
    /\ retriedOn = {}
    /\ sentWith = <<>>
    /\ inFlight = 0
    /\ delayRunning = FALSE
    /\ activeCalls = 0

Init == AppInit /\ UploaderIdle /\ ResizeIdle

\* setImageState of an uploader with a processed file
SetImage ==
    /\ \/ \E d \in PersonData : personImage' = <<d>> /\ UNCHANGED productImage
       \/ \E d \in ProductData : productImage' = <<d>> /\ UNCHANGED personImage
    /\ UNCHANGED <<variant, uploaderVars, resizeVars, apiKey, selectedSubScene, appView, callVars>>

\* handleRemoveImage of an uploader
RemoveImage ==
    /\ \/ personImage # <<>> /\ personImage' = <<>> /\ UNCHANGED productImage
       \/ productImage # <<>> /\ productImage' = <<>> /\ UNCHANGED personImage
    /\ UNCHANGED <<variant, uploaderVars, resizeVars, apiKey, selectedSubScene, appView, callVars>>

\* click on a scene option
SelectScene ==
    /\ \E sc \in Scenes : selectedSubScene' = <<sc>>
    /\ UNCHANGED <<variant, uploaderVars, resizeVars, apiKey, personImage, productImage, appView, callVars>>

\* a Generate button that is never disabled
CanAlwaysClickGenerate == ~isLoading

\* the Generate button is enabled, or the error box offers "Try again"
CanClickGenerate == ~isButtonDisabled \/ error # <<>>

\* handleGenerate stopped by one of its two input checks
GenerateRejected ==
    /\ CanClickGenerate
    /\ \/ /\ InputsMissing(personImage, productImage)
          /\ error' = <<Sentence("Please upload both a person and a product image.")>>
       \/ /\ ~InputsMissing(personImage, productImage)
          /\ SceneMissing(selectedSubScene)
          /\ error' = <<Sentence("Please select a specific scene atmosphere.")>>
    /\ UNCHANGED <<variant, uploaderVars, resizeVars, apiKey, appInputs, isLoading, generatedImage, callVars>>

\* the request generateContent sends: the images and the scene of the prompt,
\* with the credential the client was created with
Request(person, product, scene, key) ==
    [person |-> person, product |-> product, scene |-> scene, key |-> key]

\* an invocation that reuses the credential of the call's first request
InvokeCachedKey(rc, sent, flying, person, product, scene) ==
    /\ retryCount' = rc
    /\ IF sent # <<>> \/ apiKey # <<>>
       THEN /\ pc' = "sent"
            /\ sentWith' = Append(sent, Request(person, product, scene,
                                  IF sent # <<>> THEN sent[1].key ELSE apiKey[1]))
            /\ requests' = Len(sent) + 1
            /\ inFlight' = flying + 1
            /\ result' = <<>>
       ELSE /\ pc' = "done"
            /\ sentWith' = sent
            /\ requests' = Len(sent)
            /\ inFlight' = flying
            /\ result' = <<Rejected(MissingKeyMsg(variant))>>

\* an invocation of generateUGCImage with retry count rc, from its first
\* statement to its first suspension: process.env.API_KEY is read, and the
\* invocation throws on a missing key or sends its request and awaits it
Invoke(rc, sent, flying, person, product, scene) ==
    /\ retryCount' = rc
    /\ IF apiKey # <<>>
       THEN /\ pc' = "sent"
            /\ sentWith' = Append(sent, Request(person, product, scene, apiKey[1]))
            /\ requests' = Len(sent) + 1
            /\ inFlight' = flying + 1
            /\ result' = <<>>
       ELSE /\ pc' = "done"
            /\ sentWith' = sent
            /\ requests' = Len(sent)
            /\ inFlight' = flying
            /\ result' = <<Rejected(MissingKeyMsg(variant))>>

\* handleGenerate up to its await: the call of generateUGCImage runs to the
\* throw on a missing key, or to the awaited first request
GenerateStarts ==
    /\ CanClickGenerate
    /\ ~InputsMissing(personImage, productImage)
    /\ ~SceneMissing(selectedSubScene)
    /\ isLoading' = TRUE
    /\ error' = <<>>
    /\ generatedImage' = <<>>
    /\ activeCalls' = activeCalls + 1
    /\ resp' = <<>>
    /\ caught' = <<>>
    /\ delays' = 0
    /\ retriedOn' = {}
    /\ Invoke(0, <<>>, inFlight, personImage, productImage, selectedSubScene)
    /\ UNCHANGED <<variant, uploaderVars, resizeVars, apiKey, appInputs, delayRunning>>

\* retry signals of a caught error's message
RetrySignals(e) ==
    {sig \in {"500", "429"} : MessageOf(e) # <<>> /\ Includes(MessageOf(e)[1], sig)}

\* a catch block that starts the timer and goes on without waiting for it
DelayNotAwaited == FALSE

\* await delay(1500): the catch block is suspended until the timer fires
AwaitsDelay == TRUE

\* the rest of the invocation once the awaited request has settled with the
\* outcome o: return, or the catch block (delay and retry, or throw)
Continue(o) ==
    IF o.ok
    THEN /\ pc' = "done"
         /\ result' = <<Resolved(o.data)>>
         /\ inFlight' = inFlight - 1
         /\ UNCHANGED <<caught, delays, retriedOn, retryCount, requests, sentWith,
                        delayRunning>>
    ELSE /\ caught' = o.err
         /\ IF Retries(variant, retryCount, o.err[1])
            THEN /\ delays' = delays + 1
                 /\ retriedOn' = RetrySignals(o.err[1])
                 /\ delayRunning' = TRUE
                 /\ IF AwaitsDelay
                    THEN /\ pc' = "waiting"
                         /\ inFlight' = inFlight - 1
                         /\ UNCHANGED <<result, retryCount, requests, sentWith>>
                    ELSE Invoke(retryCount + 1, sentWith, inFlight - 1,
                                sentWith[1].person, sentWith[1].product,
                                sentWith[1].scene)
            ELSE /\ pc' = "done"
                 /\ result' = <<Rejected(CatchThrows(variant, o.err[1]))>>
                 /\ inFlight' = inFlight - 1
                 /\ UNCHANGED <<delays, retriedOn, retryCount, requests, sentWith,
                                delayRunning>>

\* the service answers the request with a response
ServiceResponds ==
    /\ pc = "sent"
    /\ \E r \in Responses :
          /\ resp' = <<r>>
          /\ Continue(Extract(variant, r))
    /\ UNCHANGED <<variant, uploaderVars, resizeVars, apiKey, appInputs, appView, activeCalls>>

\* the request fails with a transport or service error
ServiceFails ==
    /\ pc = "sent"
    /\ \E e \in UpstreamErrors :
          /\ resp' = <<>>
          /\ Continue(Throw(e))
    /\ UNCHANGED <<variant, uploaderVars, resizeVars, apiKey, appInputs, appView, activeCalls>>

\* the timer of delay(1500) fires: the suspended catch block makes the
\* recursive call with retryCount + 1 and the arguments of the invocation
DelayElapses ==
    /\ delayRunning
    /\ delayRunning' = FALSE
    /\ IF pc = "waiting"
       THEN /\ Invoke(retryCount + 1, sentWith, inFlight,
                      sentWith[1].person, sentWith[1].product, sentWith[1].scene)
            /\ resp' = <<>>
            /\ caught' = <<>>
       ELSE UNCHANGED <<pc, retryCount, sentWith, requests, inFlight, result, resp,
                        caught>>
    /\ UNCHANGED <<variant, uploaderVars, resizeVars, apiKey, appInputs, appView, delays, retriedOn, activeCalls>>

\* handleGenerate after its await: setGeneratedImage or setError, then finally
GenerateCompletes ==
    /\ pc = "done"
    /\ IF result[1].ok
       THEN generatedImage' = <<DataUrl(result[1].data)>> /\ UNCHANGED error
       ELSE error' = <<ErrorShown(result[1].message)>> /\ UNCHANGED generatedImage
    /\ isLoading' = FinallyLoading(result[1])
    /\ activeCalls' = activeCalls - 1
    /\ pc' = "idle"
    /\ retryCount' = 0
    /\ resp' = <<>>
    /\ caught' = <<>>
    /\ result' = <<>>
    /\ requests' = 0
    /\ delays' = 0
    /\ retriedOn' = {}
    /\ sentWith' = <<>>
    /\ UNCHANGED <<variant, uploaderVars, resizeVars, apiKey, appInputs, inFlight, delayRunning>>

\* process.env.API_KEY is set, replaced or removed
SetApiKey ==
    /\ \E k \in {<<>>} \cup {<<key>> : key \in Keys} :
          k # apiKey /\ apiKey' = k
    /\ UNCHANGED <<appInputs, appView, callVars, variant, uploaderVars, resizeVars>>

Next ==
    \/ SetImage
    \/ RemoveImage
    \/ SelectScene
    \/ GenerateRejected
    \/ GenerateStarts
    \/ ServiceResponds
    \/ ServiceFails
    \/ DelayElapses
    \/ GenerateCompletes

Spec == Init /\ [][Next]_vars

\* the application in an environment whose credential changes
NextEnv == Next \/ SetApiKey

EnvSpec == Init /\ [][NextEnv]_vars

\* the service answers every request, the timer fires, and the continuation
\* of handleGenerate is run by the event loop
FairSpec ==
    /\ Spec
    /\ WF_vars(ServiceResponds \/ ServiceFails)
    /\ WF_vars(DelayElapses)
    /\ WF_vars(GenerateCompletes)

----------------------------------------------------------------------------
(* ImageUploader in its two source variants: components/ImageUploader.tsx, *)
(* which App imports ("plain"), and unnamed/part_001, which resizes and    *)
(* re-encodes the file ("resize").                                         *)

MaxSubmits == 2
MaxSide == 6

UploaderVariants == {"plain", "resize"}

\* resizeImage(file, maxDimension = 1024)
DefaultMaxDimension == 1024

\* the media type App sends with both images
MimeTypeSent == "image/jpeg"

FileTypes == {"image/png", "image/jpeg", "image/webp", "text/plain"}

\* file.type.startsWith("image")
IsImageType(t) == t \in {"image/png", "image/jpeg", "image/webp"}

\* what the browser can do with a file: read and decode it ("intact"), read
\* but not decode it ("corrupt"), not read it ("unreadable"), or read and
\* decode it while the canvas gets no 2D context ("nocontext")
Contents == {"intact", "corrupt", "unreadable", "nocontext"}

FileSizes == {<<800, 600>>, <<2048, 1>>}

Files ==
    {f \in [type : FileTypes, content : Contents, size : FileSizes] :
        /\ f.content # "intact" => f.size = <<800, 600>>
        /\ ~IsImageType(f.type) => f.content = "intact" /\ f.size = <<800, 600>>}

RECURSIVE GCD(_, _)
GCD(a, b) == IF b = 0 THEN a ELSE GCD(b, a % b)

RECURSIVE IsPowerOfTwo(_)
IsPowerOfTwo(n) ==
    IF n = 1 THEN TRUE
    ELSE IF n % 2 = 0 THEN IsPowerOfTwo(n \div 2) ELSE FALSE

\* maxDimension / longer is a binary fraction, which a double holds exactly
ExactRatio(maxDim, longer) == IsPowerOfTwo(longer \div GCD(maxDim, longer))

\* side *= maxDimension / longer, then assigned to a canvas dimension, which
\* truncates it.  The product of doubles is the exact quotient up to one
\* rounding: when the exact quotient is an integer and the ratio is not a
\* binary fraction, the double may lie just below it and truncate to one less.
Scaled(side, maxDim, longer) ==
    LET q == (side * maxDim) \div longer
    IN  IF (side * maxDim) % longer = 0 /\ ~ExactRatio(maxDim, longer)
        THEN {q, q - 1}
        ELSE {q}

\* a resize that scales landscape images only
CanvasSizesLandscapeOnly(width, height, maxDim) ==
    IF width > height /\ width > maxDim
    THEN {<<maxDim, y>> : y \in Scaled(height, maxDim, width)}
    ELSE {<<width, height>>}

\* the dimensions resizeImage gives the canvas
CanvasSizes(width, height, maxDim) ==
    IF width > height
    THEN IF width > maxDim
         THEN {<<maxDim, y>> : y \in Scaled(height, maxDim, width)}
         ELSE {<<width, height>>}
    ELSE IF height > maxDim
         THEN {<<x, maxDim>> : x \in Scaled(width, maxDim, height)}
         ELSE {<<width, height>>}

\* the empty string as a payload: no bytes in no encoding
EmptyPayload == [encoding |-> "", size |-> <<0, 0>>]

\* canvas.toDataURL('image/jpeg', 0.85) and dataUrl.split(',')[1]; a canvas
\* with no pixels gives "data:,", whose second piece is the empty string
ToDataURL(cv) ==
    IF cv[1] = 0 \/ cv[2] = 0
    THEN [preview |-> [mime |-> "", payload |-> EmptyPayload],
          base64 |-> EmptyPayload]
    ELSE [preview |-> [mime |-> "image/jpeg",
                       payload |-> [encoding |-> "image/jpeg", size |-> cv]],
          base64 |-> [encoding |-> "image/jpeg", size |-> cv]]

\* the outcomes of resizeImage(file, maxDim): resolved with the re-encoded
\* image, or rejected by reader.onerror, img.onerror or the missing context
resizeImage(file, maxDim) ==
    IF file.content # "intact"
    THEN {[ok |-> FALSE, preview |-> [mime |-> "", payload |-> EmptyPayload],
           base64 |-> EmptyPayload]}
    ELSE {[ok |-> TRUE, preview |-> ToDataURL(cv).preview,
           base64 |-> ToDataURL(cv).base64] :
             cv \in CanvasSizes(file.size[1], file.size[2], maxDim)}

\* reader.result of readAsDataURL and its split(',')[1]: the file's own bytes
ReadAsDataURL(file) ==
    [preview |-> [mime |-> file.type,
                  payload |-> [encoding |-> file.type, size |-> file.size]],
     base64 |-> [encoding |-> file.type, size |-> file.size]]

\* const hasImage = !!imageState.preview
hasImage == imageState.preview # <<>>

\* the App is left alone
AppIdle == AppInit /\ variant = "retry" /\ apiKey = <<InitialKey>>

UploaderInit ==
    /\ AppIdle
    /\ ResizeIdle
    /\ uploader \in UploaderVariants
    /\ imageState = NullImage
    /\ isProcessing = FALSE
    /\ order = <<>>
    /\ pending = {}

appVars == <<variant, apiKey, appInputs, appView, callVars>>

\* processFile up to its first suspension, called by handleFileChange or by
\* handleDrop, which no state of the uploader disables
processFile ==
    /\ Len(order) < MaxSubmits
    /\ \E file \in Files :
         /\ order' = Append(order, file)
         /\ IF IsImageType(file.type)
            THEN /\ pending' = pending \cup {Len(order) + 1}
                 /\ isProcessing' = IF uploader = "resize" THEN TRUE ELSE isProcessing
            ELSE UNCHANGED <<pending, isProcessing>>
    /\ UNCHANGED <<uploader, imageState, appVars, resizeVars>>

\* reader.onloadend of components/ImageUploader.tsx; after a failed read
\* reader.result is null and result.split throws before setImageState
onloadend ==
    /\ uploader = "plain"
    /\ \E i \in pending :
         /\ pending' = pending \ {i}
         /\ IF order[i].content = "unreadable"
            THEN UNCHANGED imageState
            ELSE imageState' = [file |-> <<i>>,
                                preview |-> <<ReadAsDataURL(order[i]).preview>>,
                                croppedBase64 |-> <<ReadAsDataURL(order[i]).base64>>]
    /\ UNCHANGED <<uploader, isProcessing, order, appVars, resizeVars>>

\* processFile of unnamed/part_001 from the settling of resizeImage on:
\* setImageState or the catch block, then the finally block
resizeImageSettles ==
    /\ uploader = "resize"
    /\ \E i \in pending :
         /\ pending' = pending \ {i}
         /\ \E o \in resizeImage(order[i], DefaultMaxDimension) :
              imageState' = IF o.ok
                            THEN [file |-> <<i>>, preview |-> <<o.preview>>,
                                  croppedBase64 |-> <<o.base64>>]
                            ELSE imageState
         /\ isProcessing' = FALSE
    /\ UNCHANGED <<uploader, order, appVars, resizeVars>>

\* the Remove button, rendered when hasImage (and !isProcessing in part_001)
handleRemoveImage ==
    /\ hasImage
    /\ uploader = "resize" => ~isProcessing
    /\ imageState' = NullImage
    /\ UNCHANGED <<uploader, isProcessing, order, pending, appVars, resizeVars>>

UploaderNext == processFile \/ onloadend \/ resizeImageSettles \/ handleRemoveImage

UploaderSpec == UploaderInit /\ [][UploaderNext]_vars

\* resizeImage on every image and maximum dimension up to MaxSide
ResizeInit ==
    /\ AppIdle
    /\ UploaderIdle
    /\ image \in (1..MaxSide) \X (1..MaxSide)
    /\ maxDimension \in 1..MaxSide
    /\ canvas = <<>>

\* img.onload up to the assignment of the canvas dimensions
imgOnload ==
    /\ canvas = <<>>
    /\ \E cv \in CanvasSizes(image[1], image[2], maxDimension) : canvas' = <<cv>>
    /\ UNCHANGED <<image, maxDimension, appVars, uploaderVars>>

ResizeSpec == ResizeInit /\ [][imgOnload]_vars

----------------------------------------------------------------------------
(* Properties *)

\* the call ended by throwing from its catch block
FinalFailure == pc = "done" /\ caught # <<>>

\* the caught value is an error object whose message holds the substring
MessageHas(sub) ==
    /\ caught # <<>>
    /\ caught[1].type = "object"
    /\ sub \in caught[1].text

\* the awaited request resolved with a list of parts
HasResponseParts == resp # <<>> /\ resp[1].hasParts

PartKinds(k) == {i \in 1..Len(resp[1].parts) : resp[1].parts[i].kind = k}

\* C1: a call issues at most two requests; a first attempt failing with a
\* "500" message is retried, and a second attempt failing with a "500"
\* message ends the call in failure after exactly two requests.
C1_RetryBound ==
    /\ requests <= 2
    /\ variant = "retry" /\ MessageHas("500") /\ retryCount = 0
          => pc = "waiting" /\ requests = 1
    /\ variant = "retry" /\ MessageHas("500") /\ retryCount >= 1
          => pc = "done" /\ requests = 2 /\ ~result[1].ok

C1_Witness ==
    /\ variant = "retry" /\ pc = "done" /\ retryCount = 1 /\ requests = 2
    /\ "500" \in retriedOn /\ MessageHas("500") /\ ~result[1].ok

\* C2: the retry delay is entered only on a caught error whose message holds
\* "429" or "500"; any other failure of the first attempt, one with an
\* AuthFailure signal included, ends the call at once: one request, no delay.
C2_RetryOnlyTransient ==
    /\ pc = "waiting" => MessageHas("429") \/ MessageHas("500")
    /\ delays > 0 => retriedOn # {}
    /\ caught # <<>> /\ retryCount = 0 /\ ~MessageHas("429") /\ ~MessageHas("500")
          => pc = "done" /\ ~result[1].ok /\ delays = 0 /\ requests = 1

C2_Witness ==
    /\ variant = "retry" /\ FinalFailure /\ retryCount = 0
    /\ MessageHas("API_KEY_INVALID") \/ MessageHas("401") \/ MessageHas("403")
    /\ delays = 0 /\ requests = 1

\* C3: a first attempt that fails with a message holding "429" (such as
\* "429 RESOURCE_EXHAUSTED") is followed by one delay and one retry, and a
\* second attempt answered with an inline image part makes the call succeed
\* with that image's data.
C3_RetryThenSuccess ==
    /\ variant = "retry" /\ MessageHas("429") /\ retryCount = 0
          => pc = "waiting" /\ delays = 1 /\ requests = 1
    /\ variant = "retry" /\ "429" \in retriedOn /\ pc = "sent"
          => retryCount = 1 /\ delays = 1 /\ requests = 2
    /\ variant = "retry" /\ "429" \in retriedOn /\ pc = "done" /\ HasResponseParts
          /\ PartKinds("inlineData") # {}
          => /\ result[1] = Resolved(resp[1].parts[CHOOSE i \in PartKinds("inlineData") :
                                      \A j \in PartKinds("inlineData") : i <= j].data)
             /\ retryCount = 1 /\ delays = 1 /\ requests = 2

C3_Witness ==
    /\ variant = "retry" /\ "429" \in retriedOn /\ pc = "done" /\ HasResponseParts
    /\ PartKinds("inlineData") # {} /\ result[1].ok /\ result[1].data \in ImageData
    /\ delays = 1 /\ requests = 2

\* C4: a response with parts, none with inline image data, and a text part
\* makes the call fail with the safety-filter error, without a retry.
C4_TextOnlyIsSafetyBlock ==
    variant = "retry" /\ pc \in {"waiting", "done"} /\ HasResponseParts
    /\ PartKinds("inlineData") = {} /\ PartKinds("text") # {}
       => pc = "done" /\ ~result[1].ok /\ result[1].message = SafetyMsg

\* C5: the call succeeds exactly on a response that has an inline image part,
\* whatever text parts come with it, and returns the data of the first such
\* part in response order.
C5_FirstImageWins ==
    pc = "done" /\ resp # <<>> =>
       /\ result[1].ok <=> (resp[1].hasParts /\ PartKinds("inlineData") # {})
       /\ result[1].ok =>
             \E i \in PartKinds("inlineData") :
                /\ \A j \in PartKinds("inlineData") : i <= j
                /\ result[1].data = resp[1].parts[i].data

C5_Witness ==
    /\ pc = "done" /\ HasResponseParts /\ result[1].ok
    /\ Len(resp[1].parts) = 2
    /\ resp[1].parts[1].kind = "text"
    /\ resp[1].parts[2].kind = "inlineData"

C5_WitnessTwoImages ==
    /\ pc = "done" /\ HasResponseParts /\ result[1].ok
    /\ PartKinds("inlineData") = {1, 2}
    /\ resp[1].parts[1].data # resp[1].parts[2].data

\* C6: a call never succeeds with an empty or absent result.
C6_NoEmptySuccess ==
    variant = "retry" /\ pc = "done" /\ result[1].ok => result[1].data \notin {"", Undefined}

\* C7: every call that is awaiting the service or the retry delay reaches
\* its settled state, and isLoading, once set, is reset to false.
C7_Terminates ==
    /\ (pc \in {"sent", "waiting"}) ~> (pc = "done")
    /\ isLoading ~> ~isLoading

C7_Witness ==
    /\ pc = "done" /\ isLoading /\ retryCount = 1 /\ delays = 1 /\ requests = 2

\* the textual content of the caught upstream error holds the substring
ContentHas(sub) ==
    /\ caught # <<>>
    /\ sub \in caught[1].text

ContentHasAny(subs) == \E sub \in subs : ContentHas(sub)

QuotaSignals == {"RESOURCE_EXHAUSTED", "429", "quota"}
AuthSignals == {"API_KEY_INVALID", "401", "403"}
SafetySignals == {"SAFETY", "blocked"}
OtherSignals == {"API_KEY is not available", "Requested entity was not found"}

\* C8: the final failure of an upstream error is classified by the signal
\* substrings of the error's message: quota signals give the quota
\* sentence, else auth signals the API key sentence, else safety signals
\* the safety sentence.
C8_ClassifiedByMessage ==
    variant = "retry" /\ FinalFailure /\ resp = <<>> =>
       /\ ContentHasAny(QuotaSignals) => result[1].message = QuotaMsg
       /\ ~ContentHasAny(QuotaSignals) /\ ContentHasAny(AuthSignals)
             => result[1].message = AuthMsg
       /\ ~ContentHasAny(QuotaSignals \cup AuthSignals) /\ ContentHasAny(SafetySignals)
             => result[1].message = SafetyMsg

\* the caught upstream error is an error object with a message, and neither
\* the message nor the status holds a known signal
UnknownWithMessage ==
    /\ FinalFailure /\ resp = <<>>
    /\ caught[1].type = "object" /\ caught[1].text # {}
    /\ caught[1].status \notin QuotaSignals \cup AuthSignals
    /\ ~ContentHasAny(QuotaSignals \cup AuthSignals \cup SafetySignals \cup OtherSignals)

\* C9 as claimed: a final failure that matches no known signal passes the
\* upstream error's message through to the caller.
C9_MessagePassedThrough ==
    UnknownWithMessage => result[1].message = caught[1].text

\* C9 as amended: the variant without retry passes the message through; the
\* variant services/geminiService.ts surfaces every caught failure as one of
\* its five fixed sentences, and a failure with no known signal as the
\* generic sentence whatever the upstream message says.
C9_PassThroughOnlyInBasic ==
    /\ variant = "basic" /\ UnknownWithMessage => result[1].message = caught[1].text
    /\ variant = "retry" /\ FinalFailure
          => result[1].message \in {QuotaMsg, AuthMsg, SafetyMsg, ConfigMsg, GenericMsg}
    /\ variant = "retry" /\ UnknownWithMessage
          => result[1].message = GenericMsg

C9_Witness ==
    /\ variant = "retry" /\ UnknownWithMessage /\ caught[1].status = NoStatus
    /\ result[1].message = GenericMsg /\ result[1].message # caught[1].text

C9_WitnessBasic ==
    /\ variant = "basic" /\ UnknownWithMessage
    /\ result[1].message = caught[1].text

\* the failure kind the claim gives a response without an inline image part
ExtractionKind(r) ==
    IF ~r.hasParts \/ r.parts = <<>> THEN "EmptyResponse"
    ELSE IF \E i \in 1..Len(r.parts) : r.parts[i].kind = "text" THEN "SafetyBlock"
    ELSE "NoImageReturned"

\* C10: the message the caller receives for an extraction failure tells the
\* failure kind: no other response that fails extraction with another kind
\* is surfaced with the same message.
C10_ExtractionKindsDistinct ==
    variant = "retry" /\ pc = "done" /\ resp # <<>> /\ ~result[1].ok =>
       \A r \in Responses :
          (~Extract(variant, r).ok
           /\ CatchThrows(variant, Extract(variant, r).err[1]) = result[1].message)
             => ExtractionKind(r) = ExtractionKind(resp[1])

----------------------------------------------------------------------------
(* Requests, credential and the controls of App *)

\* C11: at most one request is in flight, none while the delay timer runs,
\* and a retry request is sent only from the catch block of a failed first
\* request, in the step in which the timer fires.
C11_OneRequestInFlight ==
    /\ [](/\ inFlight <= 1
          /\ delayRunning => inFlight = 0 /\ pc = "waiting" /\ caught # <<>>
          /\ pc = "waiting" => delayRunning)
    /\ [][Len(sentWith') > Len(sentWith) /\ Len(sentWith) >= 1
             => /\ pc = "waiting" /\ inFlight = 0
                /\ delayRunning /\ ~delayRunning']_vars

C11_Witness ==
    /\ pc = "sent" /\ retryCount = 1 /\ Len(sentWith) = 2
    /\ inFlight = 1 /\ ~delayRunning /\ delays = 1

C12_WitnessRemoved ==
    /\ pc = "done" /\ retryCount = 1 /\ Len(sentWith) = 1 /\ apiKey = <<>>
    /\ result = <<Rejected(MissingKeyMsg(variant))>>

\* one of the three inputs of handleGenerate is null or empty
AnInputIsMissing ==
    \E x \in {personImage, productImage, selectedSubScene} :
       IF x = <<>> THEN TRUE ELSE x[1] = ""

ValidationErrors ==
    {<<{"Please upload both a person and a product image."}>>,
     <<{"Please select a specific scene atmosphere."}>>}

\* C13: every request sent carries both images and a scene, none empty;
\* while an input is missing no call of generateUGCImage starts, and a
\* click then only sets one of the two input errors.
C13_RequestsHaveInputs ==
    /\ [](\A i \in 1..Len(sentWith) :
             /\ sentWith[i].person \notin {<<>>, <<"">>}
             /\ sentWith[i].product \notin {<<>>, <<"">>}
             /\ sentWith[i].scene \notin {<<>>, <<"">>})
    /\ [][AnInputIsMissing => activeCalls' <= activeCalls]_vars
    /\ [][AnInputIsMissing /\ ~isLoading /\ error' # error
             => error' \in ValidationErrors /\ UNCHANGED callVars]_vars

C13_Witness ==
    /\ AnInputIsMissing /\ error \in ValidationErrors
    /\ activeCalls = 0 /\ sentWith = <<>>

\* C17: the error message and the generated image are never both present.
C17_ErrorOrImage == ~(error # <<>> /\ generatedImage # <<>>)

C17_Witness ==
    /\ generatedImage # <<>> /\ error = <<>> /\ ~isLoading /\ AnInputIsMissing

\* C18: at most one call started by App is in flight, and while one is,
\* isLoading is set and no error, hence no "Try again", is shown.
C18_OneGeneration ==
    /\ activeCalls <= 1
    /\ activeCalls = 1 <=> isLoading
    /\ isLoading => error = <<>>

C18_Witness ==
    /\ activeCalls = 1 /\ isLoading /\ pc = "waiting" /\ ~AnInputIsMissing

----------------------------------------------------------------------------
(* The uploader *)

Longer(a, b) == IF a > b THEN a ELSE b

\* out is side * m / longer up to the rounding of the product and of the
\* assignment to the canvas
WithinRounding(out, side, m, longer) ==
    out * longer <= side * m /\ side * m <= (out + 1) * longer

\* C14: when the longer side of the image exceeds maxDimension the canvas
\* has maxDimension as its longer side and the other side scaled by
\* maxDimension / longer within rounding; otherwise the canvas has the
\* dimensions of the image; no canvas side exceeds maxDimension.
C14_ResizeDimensions ==
    canvas # <<>> =>
       LET w == image[1]
           h == image[2]
           cw == canvas[1][1]
           ch == canvas[1][2]
       IN  /\ Longer(w, h) > maxDimension =>
                \/ w >= h /\ cw = maxDimension /\ WithinRounding(ch, h, maxDimension, w)
                \/ h >= w /\ ch = maxDimension /\ WithinRounding(cw, w, maxDimension, h)
           /\ Longer(w, h) <= maxDimension => cw = w /\ ch = h
           /\ Longer(w, h) > maxDimension => cw <= maxDimension /\ ch <= maxDimension

C14_Witness ==
    /\ canvas # <<>> /\ image[2] > image[1] /\ image[2] > maxDimension
    /\ canvas[1][2] = maxDimension
    /\ canvas[1][1] * image[2] < image[1] * maxDimension

\* a processFile call has just ended and the image state holds its file
\* with an encoded image as payload
StoredEncodedImage(i, state) ==
    /\ state.file = <<i>>
    /\ state.croppedBase64 # <<>>
    /\ IsImageType(state.croppedBase64[1].encoding)

\* C15: a processFile call that ends without having stored an encoded image
\* of its file leaves the image state as it was and isProcessing false, and
\* a file that is not an image starts no processing at all.
C15_FailureLeavesState ==
    /\ [][\A i \in pending \ pending' :
             ~StoredEncodedImage(i, imageState')
                => imageState' = imageState /\ ~isProcessing']_vars
    /\ [][Len(order') > Len(order) /\ ~IsImageType(order'[Len(order')].type)
             => UNCHANGED <<imageState, isProcessing, pending>>]_vars

\* C16: the payload an uploader stores for an intact image file is encoded
\* as the media type App sends with it says.
C16_TagMatchesEncoding ==
    (/\ imageState.file # <<>>
     /\ imageState.croppedBase64 # <<>>
     /\ imageState.croppedBase64[1] # EmptyPayload)
       => imageState.croppedBase64[1].encoding = MimeTypeSent

\* every file handed to processFile so far is an image the uploader stores
AllStorable ==
    \A i \in 1..Len(order) :
       IsImageType(order[i].type) /\ order[i].content = "intact"

\* C19: once every processFile call has ended the image state, unless it
\* was removed, holds the file submitted last, and isProcessing is set
\* while any call is still running.
C19_LastSubmittedWins ==
    /\ (Len(order) >= 2 /\ pending = {} /\ AllStorable /\ imageState.file # <<>>)
          => imageState.file = <<Len(order)>>
    /\ (uploader = "resize" /\ pending # {}) => isProcessing

====
